---- MODULE Spec2Model ----
(***************************************************************************)
(* The benchmark harness of perf_test_py27.py: the percentile computation  *)
(* (_PerformanceTest.percentile), the timed iteration loop                 *)
(* (_PerformanceTest.runTest with Timer, followed by tearDown), and the    *)
(* chunked fan-out of insert_json_files / TestJsonMultiExport.do_task      *)
(* (chunks + gen.multi).                                                   *)
(***************************************************************************)
EXTENDS Integers, Sequences, FiniteSets, TLC

\* ------------------------------------------------------------------ bounds
MaxLen == 3        \* longest result list handed to percentile() directly
MaxVal == 2        \* durations of those lists are 0..MaxVal
PSlack == 60       \* percentile arguments range over -PSlack .. 100+PSlack
MaxIter == 3       \* NUM_ITERATIONS ranges over 1..MaxIter
MaxBudget == 1     \* MAX_ITERATION_TIME ranges over 0..MaxBudget
MaxTime == 2       \* time() returns a value of 0..MaxTime
MaxFiles == 5      \* the file list holds 0..MaxFiles files
MaxChunk == 3      \* the chunk size ranges over 1..MaxChunk

VARIABLES
    \* _PerformanceTest attributes and the percentile() call
    hasResults,          \* hasattr(self, 'results')
    selfResults,         \* self.results
    pctArg,              \* the argument of the percentile() call
    pctFloat,            \* whether that argument is a float (true division)
    pctOut,              \* what the percentile() call did
    \* module configuration
    NUM_ITERATIONS,
    MAX_ITERATION_TIME,
    scenario,            \* the test class whose do_task fans out per file
    \* runTest frame
    pc,
    i,                   \* number of iterations of the for loop completed
    start,               \* runTest's local start
    results,             \* runTest's local results
    timer,               \* the Timer object of the current with statement
    pending,             \* an exception is propagating out of run_sync
    runExc,              \* the exception runTest raised to its caller
    beforeCalls,         \* calls of self.before()
    taskCalls,           \* calls of self.do_task (through run_sync)
    budgetBreak,         \* the loop was left by the break of line 116
    failedAt,            \* taskCalls when do_task raised (0: it never did)
    lastTime,            \* the value the last call of time() returned
    \* insert_json_files frame
    files,               \* the list of files (units)
    chunkSize,           \* n of chunks(l, n)
    schedPc,
    offset,              \* i of chunks(): start of the current slice
    launched,            \* the chunks handed to gen.multi, in order
    unitState,           \* per unit: "pending", "running", "ok", "failed"
    schedExc             \* the exception insert_json_files raised

pctVars == <<hasResults, selfResults, pctArg, pctFloat, pctOut>>
cfgVars == <<NUM_ITERATIONS, MAX_ITERATION_TIME, scenario>>
runVars == <<pc, i, start, results, timer, pending, runExc, beforeCalls,
             taskCalls, budgetBreak, failedAt, lastTime>>
schedVars == <<files, chunkSize, schedPc, offset, launched, unitState, schedExc>>
vars == <<pctVars, cfgVars, runVars, schedVars>>

\* ------------------------------------------------------- Python primitives
Min(a, b) == IF a <= b THEN a ELSE b

Max(a, b) == IF a >= b THEN a ELSE b

\* sorted(l): ascending insertion sort
RECURSIVE Insert(_, _)
Insert(x, s) ==
    IF s = <<>> THEN <<x>>
    ELSE IF x <= Head(s) THEN <<x>> \o s
    ELSE <<Head(s)>> \o Insert(x, Tail(s))

RECURSIVE Sorted(_)
Sorted(s) == IF s = <<>> THEN <<>> ELSE Insert(Head(s), Sorted(Tail(s)))

\* int(a / b) for b > 0: Python 2 '/' floors on ints; on a float operand it
\* is true division and int() truncates toward zero
PyIntDiv(a, b, isFloat) ==
    IF isFloat /\ a < 0 THEN 0 - ((0 - a) \div b) ELSE a \div b

PyGetItemNoWrap(l, idx) ==
    IF 0 <= idx /\ idx < Len(l) THEN [kind |-> "value", v |-> l[idx + 1]]
    ELSE [kind |-> "IndexError", v |-> 0]

\* l[idx]: a negative index counts from the end, out of range raises
PyGetItem(l, idx) ==
    IF 0 <= idx /\ idx < Len(l) THEN [kind |-> "value", v |-> l[idx + 1]]
    ELSE IF idx < 0 /\ 0 - idx <= Len(l)
         THEN [kind |-> "value", v |-> l[Len(l) + idx + 1]]
    ELSE [kind |-> "IndexError", v |-> 0]

\* l[a:b] for 0 <= a <= b
PySlice(l, a, b) == SubSeq(l, a + 1, Min(b, Len(l)))

\* --------------------------------------------------------------- percentile
PercentileIndexNoMinusOne(n, percentile, isFloat) ==
    PyIntDiv(n * percentile, 100, isFloat)

PercentileIndex(n, percentile, isFloat) ==
    PyIntDiv(n * percentile, 100, isFloat) - 1

PercentileDefaultsOnEmpty(has, res, percentile, isFloat) ==
    IF has
    THEN IF res = <<>> THEN [kind |-> "value", v |-> 0]
         ELSE PyGetItem(Sorted(res), PercentileIndex(Len(res), percentile, isFloat))
    ELSE [kind |-> "AssertionError", v |-> 0]

PercentileWithoutHasattr(has, res, percentile, isFloat) ==
    PyGetItem(Sorted(res), PercentileIndex(Len(res), percentile, isFloat))

Percentile(has, res, percentile, isFloat) ==
    IF has
    THEN LET sorted_results == Sorted(res)
             percentile_index ==
                 PercentileIndex(Len(sorted_results), percentile, isFloat)
         IN  PyGetItem(sorted_results, percentile_index)
    ELSE [kind |-> "AssertionError", v |-> 0]

NotCalled == [kind |-> "none", v |-> 0]

\* ------------------------------------------------------------- idle frames
Times == 0..MaxTime

NoTimer == [state |-> "none", start |-> 0, end |-> 0, interval |-> 0]

PctIdle ==
    /\ hasResults = FALSE
    /\ selfResults = <<>>
    /\ pctArg = 50
    /\ pctFloat = FALSE
    /\ pctOut = NotCalled

RunIdle ==
    /\ pc = "init"
    /\ i = 0
    /\ start = 0
    /\ results = <<>>
    /\ timer = NoTimer
    /\ pending = FALSE
    /\ runExc = "none"
    /\ beforeCalls = 0
    /\ taskCalls = 0
    /\ budgetBreak = FALSE
    /\ failedAt = 0
    /\ lastTime = 0

SchedIdle ==
    /\ schedPc = "loop"
    /\ offset = 0
    /\ launched = <<>>
    /\ schedExc = "none"

\* ------------------------------------------ percentile() on arbitrary input
Percentiles == (0 - PSlack)..(100 + PSlack)

Samples == UNION {[1..n -> 0..MaxVal] : n \in 0..MaxLen}

InitPercentile ==
    /\ hasResults \in BOOLEAN
    /\ selfResults \in IF hasResults THEN Samples ELSE {<<>>}
    /\ pctArg \in Percentiles
    /\ pctFloat \in BOOLEAN
    /\ pctOut = NotCalled
    /\ NUM_ITERATIONS = 1
    /\ MAX_ITERATION_TIME = 0
    /\ scenario = "TestJsonMultiImport"
    /\ RunIdle
    /\ SchedIdle
    /\ files = <<>>
    /\ chunkSize = 1
    /\ unitState = <<>>

CallPercentile ==
    /\ pctOut = NotCalled
    /\ pctOut' = Percentile(hasResults, selfResults, pctArg, pctFloat)
    /\ UNCHANGED <<hasResults, selfResults, pctArg, pctFloat>>
    /\ UNCHANGED <<cfgVars, runVars, schedVars>>

NextPercentile == CallPercentile

SpecPercentile == InitPercentile /\ [][NextPercentile]_vars

\* -------------------------------------------------- runTest and tearDown
TimerExitSuppressesAlways == TRUE

\* Timer.__exit__ returns None: the exception of the with body propagates
TimerExitSuppresses == FALSE

RangeHasNextInclusive(done, n) == done <= n

\* for i in range(n): another element is left after `done` iterations
RangeHasNext(done, n) == done < n

BudgetExceededLate(now, began, budget) == now - began > budget + 1

\* time() - start > MAX_ITERATION_TIME
BudgetExceeded(now, began, budget) == now - began > budget

Init ==
    /\ NUM_ITERATIONS \in 1..MaxIter
    /\ MAX_ITERATION_TIME \in 0..MaxBudget
    /\ scenario = "TestJsonMultiImport"
    /\ PctIdle
    /\ RunIdle
    /\ SchedIdle
    /\ files = <<>>
    /\ chunkSize = 1
    /\ unitState = <<>>

\* lines 111-113
RunStart ==
    /\ pc = "init"
    /\ results' = <<>>
    /\ \E t \in Times : start' = t /\ lastTime' = t
    /\ pc' = "for"
    /\ UNCHANGED <<i, timer, pending, runExc, beforeCalls, taskCalls,
                   budgetBreak, failedAt>>
    /\ UNCHANGED <<pctVars, cfgVars, schedVars>>

\* line 114, range exhausted
LoopExhausted ==
    /\ pc = "for"
    /\ ~RangeHasNext(i, NUM_ITERATIONS)
    /\ pc' = "publish"
    /\ UNCHANGED <<lastTime, i, start, results, timer, pending, runExc, beforeCalls,
                   taskCalls, budgetBreak, failedAt>>
    /\ UNCHANGED <<pctVars, cfgVars, schedVars>>

\* lines 114-116
BudgetCheck ==
    /\ pc = "for"
    /\ RangeHasNext(i, NUM_ITERATIONS)
    /\ \E t \in Times :
         /\ lastTime' = t
         /\ IF BudgetExceeded(t, start, MAX_ITERATION_TIME)
            THEN /\ budgetBreak' = TRUE
                 /\ pc' = "publish"
            ELSE /\ budgetBreak' = budgetBreak
                 /\ pc' = "before"
    /\ UNCHANGED <<i, start, results, timer, pending, runExc, beforeCalls,
                   taskCalls, failedAt>>
    /\ UNCHANGED <<pctVars, cfgVars, schedVars>>

\* line 117
Before ==
    /\ pc = "before"
    /\ beforeCalls' = beforeCalls + 1
    /\ pc' = "enter"
    /\ UNCHANGED <<lastTime, i, start, results, timer, pending, runExc, taskCalls,
                   budgetBreak, failedAt>>
    /\ UNCHANGED <<pctVars, cfgVars, schedVars>>

TimerEnterNoStart ==
    /\ pc = "enter"
    /\ pc' = "task"
    /\ UNCHANGED <<lastTime, timer, i, start, results, pending, runExc,
                   beforeCalls, taskCalls, budgetBreak, failedAt>>
    /\ UNCHANGED <<pctVars, cfgVars, schedVars>>

\* line 118, Timer.__enter__
TimerEnter ==
    /\ pc = "enter"
    /\ \E t \in Times :
         /\ lastTime' = t
         /\ timer' = [state |-> "started", start |-> t, end |-> 0,
                      interval |-> 0]
    /\ pc' = "task"
    /\ UNCHANGED <<i, start, results, pending, runExc, beforeCalls, taskCalls,
                   budgetBreak, failedAt>>
    /\ UNCHANGED <<pctVars, cfgVars, schedVars>>

\* line 119, run_sync starts do_task
TaskStart ==
    /\ pc = "task"
    /\ taskCalls' = taskCalls + 1
    /\ pc' = "running"
    /\ UNCHANGED <<lastTime, i, start, results, timer, pending, runExc, beforeCalls,
                   budgetBreak, failedAt>>
    /\ UNCHANGED <<pctVars, cfgVars, schedVars>>

\* line 119, run_sync returns
TaskReturn ==
    /\ pc = "running"
    /\ pending' = FALSE
    /\ pc' = "exit"
    /\ UNCHANGED <<lastTime, i, start, results, timer, runExc, beforeCalls, taskCalls,
                   budgetBreak, failedAt>>
    /\ UNCHANGED <<pctVars, cfgVars, schedVars>>

\* line 119, run_sync re-raises the exception of do_task
TaskRaise ==
    /\ pc = "running"
    /\ pending' = TRUE
    /\ failedAt' = taskCalls
    /\ pc' = "exit"
    /\ UNCHANGED <<lastTime, i, start, results, timer, runExc, beforeCalls, taskCalls,
                   budgetBreak>>
    /\ UNCHANGED <<pctVars, cfgVars, schedVars>>

TimerExitSkippedOnError ==
    /\ pc = "exit"
    /\ IF pending
       THEN /\ UNCHANGED <<timer, lastTime>>
            /\ runExc' = "TaskError"
            /\ pc' = "teardown"
       ELSE /\ \E t \in Times :
                 /\ lastTime' = t
                 /\ timer' = [state |-> "stopped", start |-> timer.start,
                              end |-> t, interval |-> t - timer.start]
            /\ runExc' = runExc
            /\ pc' = "append"
    /\ pending' = FALSE
    /\ UNCHANGED <<i, start, results, beforeCalls, taskCalls, budgetBreak,
                   failedAt>>
    /\ UNCHANGED <<pctVars, cfgVars, schedVars>>

\* Timer.__exit__, then the with statement re-raises or falls through
TimerExit ==
    /\ pc = "exit"
    /\ \E t \in Times :
         /\ lastTime' = t
         /\ timer' = [state |-> "stopped", start |-> timer.start, end |-> t,
                      interval |-> t - timer.start]
    /\ IF pending /\ ~TimerExitSuppresses
       THEN /\ runExc' = "TaskError"
            /\ pc' = "teardown"
       ELSE /\ runExc' = runExc
            /\ pc' = "append"
    /\ pending' = FALSE
    /\ UNCHANGED <<i, start, results, beforeCalls, taskCalls, budgetBreak,
                   failedAt>>
    /\ UNCHANGED <<pctVars, cfgVars, schedVars>>

\* line 120
AppendInterval ==
    /\ pc = "append"
    /\ results' = Append(results, timer.interval)
    /\ i' = i + 1
    /\ pc' = "for"
    /\ UNCHANGED <<lastTime, start, timer, pending, runExc, beforeCalls, taskCalls,
                   budgetBreak, failedAt>>
    /\ UNCHANGED <<pctVars, cfgVars, schedVars>>

\* line 122
Publish ==
    /\ pc = "publish"
    /\ hasResults' = TRUE
    /\ selfResults' = results
    /\ pc' = "teardown"
    /\ UNCHANGED <<lastTime, pctArg, pctFloat, pctOut>>
    /\ UNCHANGED <<i, start, results, timer, pending, runExc, beforeCalls,
                   taskCalls, budgetBreak, failedAt>>
    /\ UNCHANGED <<cfgVars, schedVars>>

\* lines 124-128: tearDown formats self.percentile(50)
TearDown ==
    /\ pc = "teardown"
    /\ pctArg' = 50
    /\ pctFloat' = FALSE
    /\ pctOut' = Percentile(hasResults, selfResults, 50, FALSE)
    /\ pc' = "done"
    /\ UNCHANGED <<lastTime, hasResults, selfResults>>
    /\ UNCHANGED <<i, start, results, timer, pending, runExc, beforeCalls,
                   taskCalls, budgetBreak, failedAt>>
    /\ UNCHANGED <<cfgVars, schedVars>>

Next ==
    \/ RunStart
    \/ LoopExhausted
    \/ BudgetCheck
    \/ Before
    \/ TimerEnter
    \/ TaskStart
    \/ TaskReturn
    \/ TaskRaise
    \/ TimerExit
    \/ AppendInterval
    \/ Publish
    \/ TearDown

Spec == Init /\ [][Next]_vars

\* --------------------------- insert_json_files: chunks() and gen.multi
Range(s) == {s[k] : k \in DOMAIN s}

ChunkOfShort(l, at, n) == PySlice(l, at, at + n - 1)

\* chunks(l, n) yields l[i:i + n]
ChunkOf(l, at, n) == PySlice(l, at, at + n)

MultiFailsNever(chunk, st) == FALSE

\* gen.multi raises when a future of the chunk holds an exception
MultiFails(chunk, st) == \E k \in DOMAIN chunk : st[chunk[k]] = "failed"

MultiSettledOnFirst(chunk, st) ==
    chunk = <<>> \/ \E k \in DOMAIN chunk : st[chunk[k]] \in {"ok", "failed"}

\* gen.multi resolves once every future of the chunk is done (tornado's
\* multi_future counts down all children, failed ones included, before it
\* sets its result or its exception)
MultiSettled(chunk, st) ==
    \A k \in DOMAIN chunk : st[chunk[k]] \in {"ok", "failed"}

CurrentChunk == launched[Len(launched)]

\* do_task of these goes through chunks(files, 20)
ChunkedScenarios == {"TestJsonMultiImport", "TestJsonMultiExport"}

\* do_task of these hands every file to one gen.multi
UnchunkedScenarios == {"TestGridFsMultiFileUpload", "TestGridFsMultiFileDownload"}

InitSched ==
    /\ files \in {[j \in 1..n |-> j] : n \in 0..MaxFiles}
    /\ chunkSize \in 1..MaxChunk
    /\ unitState = [u \in 1..Len(files) |-> "pending"]
    /\ SchedIdle
    /\ PctIdle
    /\ RunIdle
    /\ NUM_ITERATIONS = 1
    /\ MAX_ITERATION_TIME = 0
    /\ scenario \in ChunkedScenarios

\* range(0, len(l), n) has another slice: every coroutine of the slice is
\* started and the list of futures is handed to gen.multi
SchedLaunch ==
    /\ schedPc = "loop"
    /\ offset < Len(files)
    /\ LET chunk == ChunkOf(files, offset, chunkSize)
       IN  /\ launched' = Append(launched, chunk)
           /\ unitState' = [u \in DOMAIN unitState |->
                              IF u \in Range(chunk) THEN "running"
                              ELSE unitState[u]]
    /\ schedPc' = "wait"
    /\ UNCHANGED <<files, chunkSize, offset, schedExc>>
    /\ UNCHANGED <<pctVars, cfgVars, runVars>>

\* range(0, len(l), n) is exhausted: the coroutine returns
SchedReturn ==
    /\ schedPc = "loop"
    /\ offset >= Len(files)
    /\ schedPc' = "done"
    /\ UNCHANGED <<files, chunkSize, offset, launched, unitState, schedExc>>
    /\ UNCHANGED <<pctVars, cfgVars, runVars>>

\* insert_json_file / read_json_file of one file finishes
UnitOk(u) ==
    /\ unitState[u] = "running"
    /\ unitState' = [unitState EXCEPT ![u] = "ok"]
    /\ UNCHANGED <<files, chunkSize, schedPc, offset, launched, schedExc>>
    /\ UNCHANGED <<pctVars, cfgVars, runVars>>

\* insert_json_file / read_json_file of one file raises
UnitFail(u) ==
    /\ unitState[u] = "running"
    /\ unitState' = [unitState EXCEPT ![u] = "failed"]
    /\ UNCHANGED <<files, chunkSize, schedPc, offset, launched, schedExc>>
    /\ UNCHANGED <<pctVars, cfgVars, runVars>>

\* the yield of gen.multi resumes: with the exception of a failed future,
\* which leaves the coroutine, or with the results, and the loop goes on
MultiResolve ==
    /\ schedPc = "wait"
    /\ MultiSettled(CurrentChunk, unitState)
    /\ IF MultiFails(CurrentChunk, unitState)
       THEN /\ schedExc' = "UnitError"
            /\ schedPc' = "failed"
            /\ offset' = offset
       ELSE /\ schedExc' = schedExc
            /\ schedPc' = "loop"
            /\ offset' = offset + chunkSize
    /\ UNCHANGED <<files, chunkSize, launched, unitState>>
    /\ UNCHANGED <<pctVars, cfgVars, runVars>>

NextSched ==
    \/ SchedLaunch
    \/ SchedReturn
    \/ \E u \in DOMAIN unitState : UnitOk(u)
    \/ \E u \in DOMAIN unitState : UnitFail(u)
    \/ MultiResolve

SpecSched == InitSched /\ [][NextSched]_vars

\* ------------------- do_task of the four scenarios that fan out per file
InitFanOut ==
    /\ files \in {[j \in 1..n |-> j] : n \in 0..MaxFiles}
    /\ chunkSize \in 1..MaxChunk
    /\ unitState = [u \in 1..Len(files) |-> "pending"]
    /\ SchedIdle
    /\ PctIdle
    /\ RunIdle
    /\ NUM_ITERATIONS = 1
    /\ MAX_ITERATION_TIME = 0
    /\ scenario \in ChunkedScenarios \cup UnchunkedScenarios

\* lines 386 and 405: gen.multi(... for f in self.files) starts the
\* coroutine of every file
LaunchAll ==
    /\ scenario \in UnchunkedScenarios
    /\ schedPc = "loop"
    /\ launched' = Append(launched, files)
    /\ unitState' = [u \in DOMAIN unitState |-> "running"]
    /\ schedPc' = "wait"
    /\ UNCHANGED <<files, chunkSize, offset, schedExc>>
    /\ UNCHANGED <<pctVars, cfgVars, runVars>>

\* lines 386 and 405: the yield of that gen.multi resumes and do_task ends
ResolveAll ==
    /\ scenario \in UnchunkedScenarios
    /\ schedPc = "wait"
    /\ MultiSettled(CurrentChunk, unitState)
    /\ IF MultiFails(CurrentChunk, unitState)
       THEN /\ schedExc' = "UnitError"
            /\ schedPc' = "failed"
       ELSE /\ schedExc' = schedExc
            /\ schedPc' = "done"
    /\ UNCHANGED <<files, chunkSize, offset, launched, unitState>>
    /\ UNCHANGED <<pctVars, cfgVars, runVars>>

NextFanOut ==
    \/ scenario \in ChunkedScenarios /\ SchedLaunch
    \/ scenario \in ChunkedScenarios /\ SchedReturn
    \/ scenario \in ChunkedScenarios /\ MultiResolve
    \/ \E u \in DOMAIN unitState : UnitOk(u)
    \/ \E u \in DOMAIN unitState : UnitFail(u)
    \/ LaunchAll
    \/ ResolveAll

SpecFanOut == InitFanOut /\ [][NextFanOut]_vars

\* ------------------------------------------------------------------ claims
PctCalled == pctOut # NotCalled

Clamp(x, lo, hi) == Max(lo, Min(x, hi))

\* C1: for every non-empty S and p in [0,100], percentile(p) is the element
\* of sorted S at index floor(len(S)*p/100) - 1 clamped to [0, len(S)-1]
\* (the minimum of S when floor(len(S)*p/100) is 0).
C1_ClampedNearestRank ==
    (PctCalled /\ hasResults /\ selfResults # <<>> /\ pctArg \in 0..100)
    => LET n == Len(selfResults)
           idx == Clamp(((n * pctArg) \div 100) - 1, 0, n - 1)
       IN  pctOut = [kind |-> "value", v |-> Sorted(selfResults)[idx + 1]]

\* C2: for every non-empty S and p in [1,100], percentile(p) returns an
\* element of S, and percentile(100) is the maximum of S.
C2_ElementOfSamples ==
    (PctCalled /\ hasResults /\ selfResults # <<>> /\ pctArg \in 1..100)
    => /\ pctOut.kind = "value"
       /\ \E k \in DOMAIN selfResults : selfResults[k] = pctOut.v
       /\ pctArg = 100 => \A k \in DOMAIN selfResults : selfResults[k] <= pctOut.v

C2_Witness ==
    /\ PctCalled
    /\ hasResults
    /\ Len(selfResults) >= 2
    /\ selfResults[1] > selfResults[2]
    /\ pctArg = 100
    /\ pctOut = [kind |-> "value", v |-> selfResults[1]]

RunReturned == pc \in {"teardown", "done"} /\ runExc = "none"

\* C3: a run of N iterations that never hits the budget break and whose task
\* never fails publishes exactly N durations after exactly N calls of
\* before() and of the task.
C3_ExactlyNDurations ==
    (RunReturned /\ ~budgetBreak)
    => /\ hasResults
       /\ Len(selfResults) = NUM_ITERATIONS
       /\ beforeCalls = NUM_ITERATIONS
       /\ taskCalls = NUM_ITERATIONS

C3_Witness ==
    /\ pc = "done"
    /\ runExc = "none"
    /\ ~budgetBreak
    /\ NUM_ITERATIONS = 3
    /\ Len(selfResults) = 3
    /\ beforeCalls = 3
    /\ taskCalls = 3

\* C4: with a budget of 0 and more than one iteration allowed, a run whose
\* task never fails publishes exactly 1 duration.
C4_BudgetZeroGivesOne ==
    (RunReturned /\ MAX_ITERATION_TIME = 0 /\ NUM_ITERATIONS = MaxIter)
    => Len(selfResults) = 1

\* C5: once the task has failed on its k-th call, no further before() or
\* task call is made, exactly k-1 durations have been collected, nothing is
\* published, and runTest leaves with the failure.
C5_AbortOnTaskFailure ==
    failedAt > 0
    => /\ taskCalls = failedAt
       /\ beforeCalls = failedAt
       /\ Len(results) = failedAt - 1
       /\ ~hasResults
       /\ pc \in {"exit", "teardown", "done"}
       /\ pc \in {"teardown", "done"} => runExc = "TaskError"

C5_Witness ==
    /\ pc = "done"
    /\ failedAt = 3
    /\ runExc = "TaskError"
    /\ taskCalls = 3
    /\ beforeCalls = 3
    /\ Len(results) = 2

ChunkNo(u) == ((u - 1) \div chunkSize) + 1

Launches(u) == Cardinality({<<k, j>> \in (DOMAIN launched) \X (1..Len(files)) :
                               j \in DOMAIN launched[k] /\ launched[k][j] = u})

\* C6: the chunks launched are, in list order, the contiguous slices of
\* chunkSize units (the last one possibly smaller); on completion there are
\* ceil(n/chunkSize) of them, every unit was launched exactly once and every
\* unit has completed.
C6_ContiguousChunks ==
    LET n == Len(files)
        c == chunkSize
    IN  /\ \A k \in DOMAIN launched :
              /\ Len(launched[k]) = Min(c, n - (k - 1) * c)
              /\ k < Len(launched) => Len(launched[k]) = c
              /\ \A j \in DOMAIN launched[k] :
                    launched[k][j] = files[(k - 1) * c + j]
        /\ schedPc = "done"
           => /\ Len(launched) = (n + c - 1) \div c
              /\ \A u \in DOMAIN unitState :
                    unitState[u] = "ok" /\ Launches(files[u]) = 1

C6_Witness ==
    /\ schedPc = "done"
    /\ Len(files) = 5
    /\ chunkSize = 2
    /\ launched = << <<1, 2>>, <<3, 4>>, <<5>> >>
    /\ \A u \in DOMAIN unitState : unitState[u] = "ok"

\* C7: once a unit of chunk K has failed, no unit of a later chunk is ever
\* started, the scheduler never goes on to another chunk nor completes, and
\* when it leaves it leaves with the failure.
C7_NoChunkAfterFailure ==
    \A u \in DOMAIN unitState :
        unitState[u] = "failed"
        => /\ \A v \in DOMAIN unitState :
                 ChunkNo(v) > ChunkNo(u) => unitState[v] = "pending"
           /\ schedPc \in {"wait", "failed"}
           /\ schedPc = "failed" => schedExc = "UnitError"

C7_Witness ==
    /\ Len(files) = 5
    /\ chunkSize = 2
    /\ unitState[3] = "failed"
    /\ unitState[5] = "pending"
    /\ Len(launched) = 2
    /\ schedPc = "failed"
    /\ schedExc = "UnitError"

\* C8: percentile(p) on an empty result set raises for every p and returns
\* no value.
C8_EmptyRaises ==
    (PctCalled /\ selfResults = <<>>)
    => pctOut.kind \in {"IndexError", "AssertionError"}

C8_Witness ==
    /\ PctCalled
    /\ hasResults
    /\ selfResults = <<>>
    /\ pctArg = 50
    /\ pctOut.kind = "IndexError"

\* C9: for every non-empty S, percentile(p) raises and returns no value
\* whenever p < 0 or p > 100.
C9_OutOfRangeRaises ==
    (PctCalled /\ hasResults /\ selfResults # <<>>
        /\ (pctArg < 0 \/ pctArg > 100))
    => pctOut.kind # "value"

\* C10: whenever runTest returns without an exception the result set it
\* published is non-empty (a budget already exceeded at the first check is an
\* error of the run, never a normal return with zero samples).
C10_PublishedNonEmpty ==
    RunReturned => (hasResults /\ selfResults # <<>>)

InFlight == Cardinality({u \in DOMAIN unitState : unitState[u] = "running"})

\* C11: a unit of a later chunk is started only after every unit of each
\* earlier chunk has settled, so at most chunkSize units are in flight.
C11_ChunksInSequence ==
    /\ \A u, v \in DOMAIN unitState :
          (ChunkNo(u) < ChunkNo(v) /\ unitState[v] # "pending")
          => unitState[u] \in {"ok", "failed"}
    /\ InFlight <= chunkSize

C11_Witness ==
    /\ Len(files) = 5
    /\ chunkSize = 2
    /\ Len(launched) = 2
    /\ unitState[1] = "ok"
    /\ unitState[2] = "ok"
    /\ unitState[3] = "running"
    /\ unitState[4] = "running"
    /\ unitState[5] = "pending"
    /\ InFlight = chunkSize

\* C12: while the scheduler waits on a chunk one of whose units has failed,
\* it can surface the error at once, whether or not the other units of the
\* chunk have finished.
C12_FailFast ==
    (schedPc = "wait" /\ MultiFails(CurrentChunk, unitState))
    => ENABLED MultiResolve

\* C13: in each of the four scenarios that fan out per file the number of
\* sub-operations in flight never exceeds the chunk size.
C13_FanOutBounded == InFlight <= chunkSize

\* C14: after a run in which the task failed, self.results is never set and
\* tearDown's percentile(50) fails the test (self.fail) instead of returning
\* a value computed from the durations collected before the failure.
C14_NoPartialReport ==
    failedAt > 0
    => /\ ~hasResults
       /\ pc = "done" => pctOut.kind = "AssertionError"

C14_Witness ==
    /\ pc = "done"
    /\ failedAt = 3
    /\ Len(results) = 2
    /\ ~hasResults
    /\ pctOut.kind = "AssertionError"

\* C15: in each iteration before() comes first and outside the timed
\* interval, then the timer starts, the task starts, the task completes, the
\* timer stops and one duration is appended; before() of the next iteration
\* comes only after that append.
C15_IterationOrder ==
    [][/\ beforeCalls' # beforeCalls
          => /\ timer.state # "started"
             /\ pc # "running"
             /\ Len(results) = beforeCalls
             /\ taskCalls = beforeCalls
       /\ (timer.state # "started" /\ timer'.state = "started")
          => /\ beforeCalls = Len(results) + 1
             /\ taskCalls = Len(results)
       /\ taskCalls' # taskCalls
          => /\ timer.state = "started"
             /\ beforeCalls = taskCalls + 1
       /\ (pc = "running" /\ pc' # "running")
          => /\ timer.state = "started"
             /\ timer'.state = "started"
       /\ (timer.state = "started" /\ timer'.state # "started")
          => /\ pc = "exit"
             /\ taskCalls = beforeCalls
             /\ timer'.state = "stopped"
       /\ results' # results
          => /\ results' = Append(results, timer.interval)
             /\ timer.state = "stopped"
             /\ taskCalls = Len(results) + 1
             /\ beforeCalls = Len(results) + 1
      ]_vars

C15_Witness ==
    /\ pc = "enter"
    /\ beforeCalls = 2
    /\ taskCalls = 1
    /\ Len(results) = 1
    /\ timer.state = "stopped"

\* C16: an iteration begins only if at its check fewer than NUM_ITERATIONS
\* iterations have begun and the time since the start of the run does not
\* exceed the budget; so the result set never holds more than NUM_ITERATIONS
\* durations, and the loop ends whenever every task call ends: every step of
\* the run lowers a measure that is bounded below, and the run is never
\* stuck before tearDown is done.
LoopPosition ==
    CASE pc = "init" -> 7
      [] pc = "for" -> 6
      [] pc = "before" -> 5
      [] pc = "enter" -> 4
      [] pc = "task" -> 3
      [] pc = "running" -> 2
      [] pc = "exit" -> 1
      [] pc = "append" -> 0
      [] pc = "publish" -> 0 - 1
      [] pc = "teardown" -> 0 - 2
      [] pc = "done" -> 0 - 3

StepsLeft ==
    IF pc \in {"publish", "teardown", "done"} THEN LoopPosition
    ELSE 7 * (NUM_ITERATIONS - i) + LoopPosition

C16_BoundedLoop ==
    /\ [](/\ Len(results) <= NUM_ITERATIONS
          /\ beforeCalls <= NUM_ITERATIONS
          /\ StepsLeft >= 0 - 3
          /\ pc # "done" => ENABLED Next)
    /\ [][/\ (pc = "for" /\ pc' = "before")
             => /\ beforeCalls < NUM_ITERATIONS
                /\ lastTime' - start <= MAX_ITERATION_TIME
          /\ StepsLeft' < StepsLeft]_vars

C16_Witness ==
    /\ pc = "done"
    /\ budgetBreak
    /\ NUM_ITERATIONS = 3
    /\ Len(selfResults) = 1
    /\ lastTime - start > MAX_ITERATION_TIME

\* C17: every interval the Timer records and every duration appended to the
\* result set is non-negative, whatever the clock returns.
C17_NonNegativeDurations ==
    /\ timer.state = "stopped" => timer.interval >= 0
    /\ \A k \in DOMAIN results : results[k] >= 0

\* C18: when the timed task fails the Timer is still closed (end and
\* interval = end - start recorded) and runTest leaves with the failure; the
\* timer is started only while the task is being run.
C18_TimerClosesOnFailure ==
    /\ (failedAt > 0 /\ pc \in {"teardown", "done"})
       => /\ timer.state = "stopped"
          /\ timer.interval = timer.end - timer.start
          /\ runExc = "TaskError"
    /\ timer.state = "started" => pc \in {"task", "running", "exit"}

C18_Witness ==
    /\ pc = "teardown"
    /\ failedAt = 1
    /\ runExc = "TaskError"
    /\ timer.state = "stopped"
    /\ timer.end = timer.start + 1
    /\ timer.interval = 1

\* C19: the value tearDown reports, percentile(50), is the element of the
\* sorted result set at the clamped nearest-rank index, for every non-empty
\* result set; for a single duration it is that duration.
C19_MedianMatchesClamped ==
    (pc = "done" /\ hasResults /\ selfResults # <<>>)
    => LET n == Len(selfResults)
           idx == Clamp(((n * 50) \div 100) - 1, 0, n - 1)
       IN  /\ pctOut = [kind |-> "value", v |-> Sorted(selfResults)[idx + 1]]
           /\ n = 1 => pctOut.v = selfResults[1]

C19_Witness ==
    /\ pc = "done"
    /\ NUM_ITERATIONS = 1
    /\ selfResults = <<1>>
    /\ pctOut = [kind |-> "value", v |-> 1]

====
